---- MODULE Spec2Model ----
(***************************************************************************)
(* Model of the ecological-inference core (src/inference.py) and of the    *)
(* download cache (load_remote_data in src/load_data.py).                  *)
(*                                                                         *)
(* Real numbers (fractions, rates, lam, target_accept) are exact rationals *)
(* <<numerator, denominator>> in lowest terms.  Arrays are sequences.      *)
(* Optional values are sequences of length 0 (None) or 1.                  *)
(***************************************************************************)
EXTENDS Integers, Sequences, FiniteSets, TLC

\* ------------------------------------------------------------------ bounds
\* longest array handed to ecological_inference_model / most rows of a table
MaxLen == 2
\* most calls of load_remote_data in one behaviour
MaxCalls == 3

\* -------------------------------------------------------------- arithmetic
RECURSIVE GCD(_, _)
GCD(a, b) == IF b = 0 THEN a ELSE GCD(b, a % b)

Norm(r) == LET g == GCD(r[1], r[2]) IN <<r[1] \div g, r[2] \div g>>

RAdd(a, b) == Norm(<<a[1] * b[2] + b[1] * a[2], a[2] * b[2]>>)
RMul(a, b) == Norm(<<a[1] * b[1], a[2] * b[2]>>)
RSub(a, b) == Norm(<<a[1] * b[2] - b[1] * a[2], a[2] * b[2]>>)
\* numpy true division of two integer columns, element by element
RDiv(x, y) == Norm(<<x, y>>)
Zero == <<0, 1>>
One  == <<1, 1>>
Half == <<1, 2>>

\* ----------------------------------------------------------- input domains
\* minority fractions in [0, 1] and latent rates in (0, 1)
Fractions == {Zero, Half, One}
Rates     == {<<1, 4>>, <<3, 4>>}
\* vote counts: with a population of 2, 1 is in range and 3 is out of range
VoteCounts == {1, 3}
PopCounts  == {2}
Lams       == {Half, One}
Groups     == {"dem", "rep"}
\* rows of a precinct table; the second and third differ in LIB only
Rows ==
  { [Total |-> 4, White |-> 3, DEM |-> 1, REP |-> 2, LIB |-> 0],
    [Total |-> 2, White |-> 0, DEM |-> 3, REP |-> 1, LIB |-> 0],
    [Total |-> 2, White |-> 0, DEM |-> 3, REP |-> 1, LIB |-> 5] }

SeqsUpTo(S, n) == UNION { [1..k -> S] : k \in 0..n }

\* options a caller may give to run_ecological_inference, with its values
CallerValue ==
  [ draws       |-> 1000,
    nuts_kwargs |-> [target_accept |-> <<9, 10>>],
    chains      |-> 2,
    random_seed |-> 42 ]
KwargChoices == { [k \in S |-> CallerValue[k]] : S \in SUBSET (DOMAIN CallerValue) }

\* model contexts that may already be active when a function is called
NewModel == "model"
OuterStacks == { <<>>, <<"outer">> }

NoError == [type |-> "None", site |-> "None"]

VARIABLES
  pc,                   \* position in the running call
  entry,                \* the function the caller called
  ctx,                  \* pymc3's stack of active model contexts (top last)
  ctx0,                 \* that stack when the call began
  district_df,          \* run_ecological_inference: the table
  sample_kwargs,        \* run_ecological_inference: the caller's options
  num_votes_for_group, voting_population, pct_minority, lam, group_name,
  n_precincts,
  model,                \* the quantities declared so far, in order
  err,                  \* the exception in flight / seen by the caller
  engineCalls,          \* invocations of pm.sample's body
  received,             \* what the engine was invoked with
  outcome,              \* what the engine produced
  result,               \* the value returned to the caller
  files,                \* load_remote_data: the file system
  log                   \* load_remote_data: one entry per finished call

infVars == <<pc, entry, ctx, ctx0, district_df, sample_kwargs,
             num_votes_for_group, voting_population, pct_minority, lam,
             group_name, n_precincts, model, err, engineCalls, received,
             outcome, result>>
cacheVars == <<files, log>>
vars == <<infVars, cacheVars>>


\* ------------------------------------------------------------------ helpers
Top(stack) == IF stack = <<>> THEN "None" ELSE stack[Len(stack)]
Push(stack, m) == Append(stack, m)
Pop(stack) == SubSeq(stack, 1, Len(stack) - 1)

\* the label is written into the template instead of taken from the argument
Format_fixed(template, g) == template \o "dem"

\* 'template_{}'.format(group_name)
Format(template, g) == template \o g

\* the identifier each declaration of ecological_inference_model uses
Quantities == {"alpha", "beta", "minority", "majority", "est", "likelihood"}
NodeName(q, g) ==
  CASE q = "alpha"      -> "alpha"
    [] q = "beta"       -> "beta"
    [] q = "minority"   -> Format("pct_minority_voting_", g)
    [] q = "majority"   -> Format("pct_majority_voting_", g)
    [] q = "est"        -> Format("est_voting_", g)
    [] q = "likelihood" -> Format("votes_for_", g)

\* a quantity registered with the model that is on top of the context stack
Node(name, dist, shape, args, value) ==
  [name |-> name, dist |-> dist, owner |-> Top(ctx), shape |-> shape,
   args |-> args, value |-> value]

Column(df, c) == [i \in 1..Len(df) |-> df[i][c]]

\* the first precinct's rates are used for every precinct
EstVoting_firstPrecinct(pct, minority, majority) ==
  [i \in 1..Len(pct) |->
     RAdd(RMul(pct[i], minority[1]), RMul(RSub(One, pct[i]), majority[1]))]

\* the two weights are exchanged
EstVoting_swapped(pct, minority, majority) ==
  [i \in 1..Len(pct) |->
     RAdd(RMul(RSub(One, pct[i]), minority[i]), RMul(pct[i], majority[i]))]

\* pct_minority * pct_minority_voting + (1 - pct_minority) * pct_majority_voting
EstVoting(pct, minority, majority) ==
  [i \in 1..Len(pct) |->
     RAdd(RMul(pct[i], minority[i]), RMul(RSub(One, pct[i]), majority[i]))]

\* the three arrays run_ecological_inference derives from the table
MinorityFraction(df) ==
  [i \in 1..Len(df) |-> RDiv(df[i].Total - df[i].White, df[i].Total)]
\* every party's votes are counted into the population
VotingPopulation_withLib(df) ==
  [i \in 1..Len(df) |-> df[i].DEM + df[i].REP + df[i].LIB]

VotingPopulation(df) == [i \in 1..Len(df) |-> df[i].DEM + df[i].REP]
VotesForGroup(df) == Column(df, "DEM")

\* line 4: lam=0.5, group_name='dem'
DefaultLam == Half
DefaultGroup == "dem"

\* only the two vote arrays are compared
SameLength_votesOnly(votes, population, pct) == Len(votes) = Len(population)

\* the check also refuses a precinct with more votes than voters
SameLength_andRange(votes, population, pct) ==
  /\ Len(votes) = Len(population)
  /\ Len(pct) = Len(population)
  /\ \A i \in 1..Len(population) : votes[i] <= population[i]

\* the length check of ecological_inference_model
SameLength(votes, population, pct) ==
  LET n == Len(population)
      data == <<votes, population, pct>>
  IN \A k \in 1..3 : Len(data[k]) = n

\* -------------------------------------------------------------------- Init
InfInit ==
  /\ pc = "idle"
  /\ entry = "none"
  /\ ctx \in OuterStacks
  /\ ctx0 = ctx
  /\ district_df = <<>>
  /\ sample_kwargs = <<>>
  /\ num_votes_for_group = <<>>
  /\ voting_population = <<>>
  /\ pct_minority = <<>>
  /\ lam = DefaultLam
  /\ group_name = DefaultGroup
  /\ n_precincts = 0
  /\ model = <<>>
  /\ err = NoError
  /\ engineCalls = 0
  /\ received = <<>>
  /\ outcome = <<>>
  /\ result = <<>>

CacheInit ==
  /\ files = [f \in {} |-> <<>>]
  /\ log = <<>>

Init == InfInit /\ CacheInit

\* ------------------------------------------- ecological_inference_model
\* a direct call, with any arrays, lam and group_name
CallModel ==
  /\ pc = "idle"
  /\ \E votes \in SeqsUpTo(VoteCounts, MaxLen),
        population \in SeqsUpTo(PopCounts, MaxLen),
        pct \in SeqsUpTo(Fractions, MaxLen),
        l \in Lams, g \in Groups :
       /\ num_votes_for_group' = votes
       /\ voting_population' = population
       /\ pct_minority' = pct
       /\ lam' = l
       /\ group_name' = g
  /\ entry' = "model"
  /\ pc' = "m_validate"
  /\ UNCHANGED <<ctx, ctx0, district_df, sample_kwargs, n_precincts, model,
                 err, engineCalls, received, outcome, result, cacheVars>>

\* lines 32-35: n_precincts and the length check
ValidateFails ==
  /\ pc = "m_validate"
  /\ ~SameLength(num_votes_for_group, voting_population, pct_minority)
  /\ n_precincts' = Len(voting_population)
  /\ err' = [type |-> "TypeError", site |-> "validate"]
  /\ pc' = "raised"
  /\ UNCHANGED <<entry, ctx, ctx0, district_df, sample_kwargs,
                 num_votes_for_group, voting_population, pct_minority, lam,
                 group_name, model, engineCalls, received, outcome, result,
                 cacheVars>>

ValidatePasses ==
  /\ pc = "m_validate"
  /\ SameLength(num_votes_for_group, voting_population, pct_minority)
  /\ n_precincts' = Len(voting_population)
  /\ pc' = "m_enter"
  /\ UNCHANGED <<entry, ctx, ctx0, district_df, sample_kwargs,
                 num_votes_for_group, voting_population, pct_minority, lam,
                 group_name, model, err, engineCalls, received, outcome,
                 result, cacheVars>>

\* line 37: with pm.Model() as model
EnterModel ==
  /\ pc = "m_enter"
  /\ ctx' = Push(ctx, NewModel)
  /\ pc' = "m_alpha"
  /\ UNCHANGED <<entry, ctx0, district_df, sample_kwargs,
                 num_votes_for_group, voting_population, pct_minority, lam,
                 group_name, n_precincts, model, err, engineCalls, received,
                 outcome, result, cacheVars>>

Declare(node, next) ==
  /\ model' = Append(model, node)
  /\ pc' = next
  /\ UNCHANGED <<entry, ctx, ctx0, district_df, sample_kwargs,
                 num_votes_for_group, voting_population, pct_minority, lam,
                 group_name, n_precincts, err, engineCalls, received,
                 outcome, result, cacheVars>>

\* line 38
DeclareAlpha ==
  /\ pc = "m_alpha"
  /\ Declare(Node(NodeName("alpha", group_name), "Exponential", 2,
                  [lam |-> lam], <<>>),
             "m_beta")

\* line 39
DeclareBeta ==
  /\ pc = "m_beta"
  /\ Declare(Node(NodeName("beta", group_name), "Exponential", 2,
                  [lam |-> lam], <<>>),
             "m_minority")

\* lines 41-44; the value is any draw of the latent rate
DeclareMinority ==
  /\ pc = "m_minority"
  /\ \E draw \in [1..n_precincts -> Rates] :
       Declare(Node(NodeName("minority", group_name), "Beta",
                    n_precincts,
                    [alpha |-> <<"alpha", 0>>, beta |-> <<"beta", 0>>], draw),
               "m_majority")

\* lines 45-48
DeclareMajority ==
  /\ pc = "m_majority"
  /\ \E draw \in [1..n_precincts -> Rates] :
       Declare(Node(NodeName("majority", group_name), "Beta",
                    n_precincts,
                    [alpha |-> <<"alpha", 1>>, beta |-> <<"beta", 1>>], draw),
               "m_est")

\* lines 50-52
DeclareEst ==
  /\ pc = "m_est"
  /\ Declare(Node(NodeName("est", group_name), "Deterministic",
                  Len(pct_minority), [weights |-> pct_minority],
                  EstVoting(pct_minority, model[3].value, model[4].value)),
             "m_likelihood")

\* lines 54-58
DeclareLikelihood ==
  /\ pc = "m_likelihood"
  /\ Declare(Node(NodeName("likelihood", group_name), "Binomial", n_precincts,
                  [n |-> voting_population, p |-> 5],
                  num_votes_for_group),
             "m_exit")

\* the error leaves the function with the new model still active
DeclarationRaises_leak ==
  /\ pc \in {"m_alpha", "m_beta", "m_minority", "m_majority", "m_est",
             "m_likelihood"}
  /\ err' = [type |-> "LibraryError", site |-> pc]
  /\ pc' = "raised"
  /\ UNCHANGED <<entry, ctx, ctx0, district_df, sample_kwargs,
                 num_votes_for_group, voting_population, pct_minority, lam,
                 group_name, n_precincts, model, engineCalls, received,
                 outcome, result, cacheVars>>

\* a declaration raises inside the with block: the context is released and
\* the error leaves the function
DeclarationRaises ==
  /\ pc \in {"m_alpha", "m_beta", "m_minority", "m_majority", "m_est",
             "m_likelihood"}
  /\ ctx' = Pop(ctx)
  /\ err' = [type |-> "LibraryError", site |-> pc]
  /\ pc' = "raised"
  /\ UNCHANGED <<entry, ctx0, district_df, sample_kwargs,
                 num_votes_for_group, voting_population, pct_minority, lam,
                 group_name, n_precincts, model, engineCalls, received,
                 outcome, result, cacheVars>>

\* end of the with block and line 60: return model
ReturnModel ==
  /\ pc = "m_exit"
  /\ ctx' = Pop(ctx)
  /\ IF entry = "model"
       THEN /\ result' = <<NewModel>>
            /\ pc' = "returned"
       ELSE /\ result' = result
            /\ pc' = "r_enter"
  /\ UNCHANGED <<entry, ctx0, district_df, sample_kwargs,
                 num_votes_for_group, voting_population, pct_minority, lam,
                 group_name, n_precincts, model, err, engineCalls, received,
                 outcome, cacheVars>>


\* --------------------------------------------- run_ecological_inference
\* lines 81-86: the three arrays are derived from the table and handed to
\* ecological_inference_model, lam and group_name left at their defaults
CallRun ==
  /\ pc = "idle"
  /\ \E df \in SeqsUpTo(Rows, MaxLen), kw \in KwargChoices :
       /\ district_df' = df
       /\ sample_kwargs' = kw
       /\ pct_minority' = MinorityFraction(df)
       /\ voting_population' = VotingPopulation(df)
       /\ num_votes_for_group' = VotesForGroup(df)
  /\ lam' = DefaultLam
  /\ group_name' = DefaultGroup
  /\ entry' = "run"
  /\ pc' = "m_validate"
  /\ UNCHANGED <<ctx, ctx0, n_precincts, model, err, engineCalls, received,
                 outcome, result, cacheVars>>

\* line 86: the built model becomes the active context
EnterBuilt ==
  /\ pc = "r_enter"
  /\ ctx' = Push(ctx, NewModel)
  /\ pc' = "r_sample"
  /\ UNCHANGED <<entry, ctx0, district_df, sample_kwargs,
                 num_votes_for_group, voting_population, pct_minority, lam,
                 group_name, n_precincts, model, err, engineCalls, received,
                 outcome, result, cacheVars>>

\* line 87: the arguments the call itself states; 5000 is positional and
\* binds to pm.sample's first parameter, draws
Explicit ==
  [draws |-> 5000, nuts_kwargs |-> [target_accept |-> <<49, 50>>]]

\* an argument given twice (stated in the call and present in **sample_kwargs)
Conflicts(kwargs) == DOMAIN Explicit \cap DOMAIN kwargs

\* **sample_kwargs is left out of the call
Bind_dropped(kwargs) == Explicit

\* the arguments pm.sample is entered with
Bind(kwargs) ==
  [k \in DOMAIN Explicit \cup DOMAIN kwargs |->
     IF k \in DOMAIN Explicit THEN Explicit[k] ELSE kwargs[k]]

\* line 87: Python refuses the call, pm.sample is not entered
SampleRejected ==
  /\ pc = "r_sample"
  /\ Conflicts(sample_kwargs) # {}
  /\ err' = [type |-> "TypeError", site |-> "sample_call"]
  /\ pc' = "r_exit"
  /\ UNCHANGED <<entry, ctx, ctx0, district_df, sample_kwargs,
                 num_votes_for_group, voting_population, pct_minority, lam,
                 group_name, n_precincts, model, engineCalls, received,
                 outcome, result, cacheVars>>

Invoke ==
  /\ pc = "r_sample"
  /\ Conflicts(sample_kwargs) = {}
  /\ engineCalls' = engineCalls + 1
  /\ received' = <<[args |-> Bind(sample_kwargs), model |-> Top(ctx)]>>

\* line 87: the sampler runs on the active model and produces a trace
SampleSucceeds ==
  /\ Invoke
  /\ outcome' = <<[kind |-> "trace", of |-> Top(ctx)]>>
  /\ pc' = "r_exit"
  /\ UNCHANGED <<entry, ctx, ctx0, district_df, sample_kwargs,
                 num_votes_for_group, voting_population, pct_minority, lam,
                 group_name, n_precincts, model, err, result, cacheVars>>

\* a failed sampling is tried again
SampleFails_retry ==
  /\ Invoke
  /\ outcome' = <<[kind |-> "error", of |-> "SamplingError"]>>
  /\ pc' = "r_sample"
  /\ UNCHANGED <<entry, ctx, ctx0, district_df, sample_kwargs,
                 num_votes_for_group, voting_population, pct_minority, lam,
                 group_name, n_precincts, model, err, result, cacheVars>>

\* line 87: the sampler fails
SampleFails ==
  /\ Invoke
  /\ outcome' = <<[kind |-> "error", of |-> "SamplingError"]>>
  /\ err' = [type |-> "SamplingError", site |-> "engine"]
  /\ pc' = "r_exit"
  /\ UNCHANGED <<entry, ctx, ctx0, district_df, sample_kwargs,
                 num_votes_for_group, voting_population, pct_minority, lam,
                 group_name, n_precincts, model, result, cacheVars>>

\* end of the with block and line 88: the context is released, then the
\* trace is returned or the error leaves the function
ExitBuilt ==
  /\ pc = "r_exit"
  /\ ctx' = Pop(ctx)
  /\ IF err = NoError
       THEN /\ result' = outcome
            /\ pc' = "returned"
       ELSE /\ result' = result
            /\ pc' = "raised"
  /\ UNCHANGED <<entry, ctx0, district_df, sample_kwargs,
                 num_votes_for_group, voting_population, pct_minority, lam,
                 group_name, n_precincts, model, err, engineCalls, received,
                 outcome, cacheVars>>

Next ==
  \/ CallModel
  \/ ValidateFails
  \/ ValidatePasses
  \/ EnterModel
  \/ DeclareAlpha
  \/ DeclareBeta
  \/ DeclareMinority
  \/ DeclareMajority
  \/ DeclareEst
  \/ DeclareLikelihood
  \/ DeclarationRaises
  \/ ReturnModel
  \/ CallRun
  \/ EnterBuilt
  \/ SampleRejected
  \/ SampleSucceeds
  \/ SampleFails
  \/ ExitBuilt

Spec == Init /\ [][Next]_vars


\* ------------------------------------------------------ load_remote_data
\* a url is its '/'-separated segments; None is the empty option <<>>
Urls == { <<"h1", "a.csv">>, <<"h2", "a.csv">>, <<"h1", "b.csv">> }
Filenames == { "data/a.csv", "x.csv" }
Contents == { "b1", "b2" }
UrlArgs == {<<>>} \cup { <<u>> : u \in Urls }
FilenameArgs == {<<>>} \cup { <<f>> : f \in Filenames }
\* what the server may answer
Responses == [status : {200, 404, 500}, content : Contents]

\* line 52: os.path.join(DATA, url.split('/')[-1])
DefaultFilename(u) == "data/" \o u[Len(u)]

\* lines 51-52: the file the call works on
Target(url, filename) ==
  IF filename # <<>> THEN filename[1] ELSE DefaultFilename(url[1])

\* the file is fetched whether it exists or not
NeedsRequest_always(f) == TRUE

\* line 54: not os.path.exists(filename)
NeedsRequest(f) == f \notin DOMAIN files

\* line 56: raise_for_status
StatusFails(resp) == resp.status >= 400

Store(f, content) ==
  [g \in DOMAIN files \cup {f} |-> IF g = f THEN content ELSE files[g]]

Entry(f, requested, error, returned) ==
  [filename |-> f, existed |-> f \in DOMAIN files, requested |-> requested,
   error |-> error, returned |-> returned]

Finish(e) ==
  /\ log' = Append(log, e)
  /\ UNCHANGED infVars

\* line 52 with url=None and filename=None: None has no split
LoadNoTarget ==
  /\ Len(log) < MaxCalls
  /\ files' = files
  /\ Finish([filename |-> "None", existed |-> FALSE, requested |-> FALSE,
             error |-> "AttributeError", returned |-> <<>>])

\* lines 54, 59-60: the file exists, it is read and returned
LoadCached ==
  /\ Len(log) < MaxCalls
  /\ \E url \in UrlArgs, filename \in FilenameArgs :
       /\ url # <<>> \/ filename # <<>>
       /\ LET f == Target(url, filename) IN
            /\ ~NeedsRequest(f)
            /\ files' = files
            /\ Finish(Entry(f, FALSE, "None", <<files[f]>>))

\* line 55: requests.get raises (no url, or no connection)
LoadRequestRaises ==
  /\ Len(log) < MaxCalls
  /\ \E url \in UrlArgs, filename \in FilenameArgs :
       /\ url # <<>> \/ filename # <<>>
       /\ LET f == Target(url, filename) IN
            /\ NeedsRequest(f)
            /\ files' = files
            /\ Finish(Entry(f, TRUE,
                            IF url = <<>> THEN "MissingSchema"
                                          ELSE "ConnectionError", <<>>))

\* lines 55-56: the answer fails the status check
LoadStatusFails ==
  /\ Len(log) < MaxCalls
  /\ \E url \in UrlArgs \ {<<>>}, filename \in FilenameArgs,
        resp \in Responses :
       LET f == Target(url, filename) IN
         /\ NeedsRequest(f)
         /\ StatusFails(resp)
         /\ files' = files
         /\ Finish(Entry(f, TRUE, "HTTPError", <<>>))

\* lines 55-60: the answer is stored, then read back and returned
LoadStores ==
  /\ Len(log) < MaxCalls
  /\ \E url \in UrlArgs \ {<<>>}, filename \in FilenameArgs,
        resp \in Responses :
       LET f == Target(url, filename) IN
         /\ NeedsRequest(f)
         /\ ~StatusFails(resp)
         /\ files' = Store(f, resp.content)
         /\ Finish(Entry(f, TRUE, "None", <<files'[f]>>))

CacheNext ==
  \/ LoadNoTarget
  \/ LoadCached
  \/ LoadRequestRaises
  \/ LoadStatusFails
  \/ LoadStores

CacheSpecInit ==
  /\ InfInit
  /\ ctx = <<>>
  /\ CacheInit

SpecCache == CacheSpecInit /\ [][CacheNext]_vars


\* ================================================================= claims
Started == pc \notin {"idle", "m_validate"}
Mismatch ==
  ~(/\ Len(num_votes_for_group) = Len(voting_population)
    /\ Len(pct_minority) = Len(voting_population))
DeclSites == {"m_alpha", "m_beta", "m_minority", "m_majority", "m_est",
              "m_likelihood"}
Names == { model[k].name : k \in 1..Len(model) }
DeclaredNames(g) == { NodeName(q, g) : q \in Quantities }
EndsWith(name, g) ==
  /\ Len(name) >= Len(g)
  /\ SubSeq(name, Len(name) - Len(g) + 1, Len(name)) = g

\* C1: arrays whose three lengths are not all equal make
\* ecological_inference_model raise the validation TypeError before any model
\* context is opened, any quantity is declared or any sampling is done; arrays
\* of equal length (length 0 and 1 included) never raise it.
C1_LengthValidation ==
  Started =>
    IF Mismatch
      THEN /\ pc = "raised"
           /\ err = [type |-> "TypeError", site |-> "validate"]
           /\ ctx = ctx0
           /\ model = <<>>
           /\ engineCalls = 0
           /\ result = <<>>
      ELSE err.site # "validate"

C1_Witness ==
  /\ pc = "raised"
  /\ Len(num_votes_for_group) = Len(voting_population)
  /\ Len(pct_minority) # Len(voting_population)

\* C2: for every precinct i the deterministic quantity equals
\* pct_minority[i] * minority_rate[i] + (1 - pct_minority[i]) * majority_rate[i]
\* with the fraction and the rates of the same index i (stated over the
\* integers: e/f = (p*a*d + (q-p)*c*b) / (q*b*d) for p/q, a/b, c/d).
C2_EstVoting ==
  Len(model) >= 5 =>
    LET est == model[5].value
        minority == model[3].value
        majority == model[4].value
    IN /\ DOMAIN est = 1..n_precincts
       /\ \A i \in 1..n_precincts :
            LET p == pct_minority[i][1]
                q == pct_minority[i][2]
                a == minority[i][1]
                b == minority[i][2]
                c == majority[i][1]
                d == majority[i][2]
            IN est[i][1] * (q * b * d)
                 = est[i][2] * (p * a * d + (q - p) * c * b)

C2_Witness ==
  /\ Len(model) >= 5
  /\ n_precincts >= 2
  /\ pct_minority[1] = Half
  /\ model[3].value[1] # model[3].value[2]
  /\ model[4].value[1] # model[4].value[2]
  /\ model[3].value[1] # model[4].value[1]

\* C3: a precinct with minority fraction 0 has the estimate equal to its
\* majority rate, a precinct with minority fraction 1 has it equal to its
\* minority rate, whatever the rates drawn.
C3_Degenerate ==
  Len(model) >= 5 =>
    \A i \in 1..n_precincts :
      /\ pct_minority[i] = Zero => model[5].value[i] = model[4].value[i]
      /\ pct_minority[i] = One => model[5].value[i] = model[3].value[i]

C3_Witness ==
  /\ Len(model) >= 5
  /\ pct_minority = <<Zero, One>>
  /\ model[3].value[1] # model[4].value[1]
  /\ model[3].value[2] # model[4].value[2]

C5_DerivedArrays ==
  (entry = "run" /\ pc # "idle") =>
    /\ Len(num_votes_for_group) = Len(district_df)
    /\ Len(voting_population) = Len(district_df)
    /\ Len(pct_minority) = Len(district_df)
    /\ \A i \in 1..Len(district_df) :
         /\ num_votes_for_group[i] = district_df[i].DEM
         /\ voting_population[i] = district_df[i].DEM + district_df[i].REP
         /\ pct_minority[i][2] > 0
         /\ pct_minority[i][1] * district_df[i].Total
              = (district_df[i].Total - district_df[i].White)
                  * pct_minority[i][2]
    /\ lam = <<1, 2>>
    /\ group_name = "dem"
    /\ \A k \in 1..Len(model) :
         /\ model[k].dist = "Exponential" => model[k].args.lam = <<1, 2>>
         /\ model[k].dist = "Binomial" =>
              /\ model[k].args.n = voting_population
              /\ model[k].value = num_votes_for_group

C5_Witness ==
  /\ entry = "run"
  /\ Len(model) = 6
  /\ Len(district_df) >= 2
  /\ district_df[1].LIB > 0
  /\ district_df[2].White > 0

SampleReached ==
  /\ entry = "run"
  /\ pc \in {"returned", "raised"}
  /\ err.site \in {"None", "sample_call", "engine"}

\* C6 as stated: every option the caller gives reaches the engine: the engine
\* is invoked and receives the caller's value for it.
C6_AllForwarded ==
  SampleReached =>
    \A k \in DOMAIN sample_kwargs :
      /\ engineCalls = 1
      /\ k \in DOMAIN received[1].args
      /\ received[1].args[k] = sample_kwargs[k]

\* C6 amended: the call states draws (5000) and nuts_kwargs (target_accept
\* 0.98) itself.  When the caller gives neither, the engine is invoked once
\* and receives the caller's value for every option given, with those two
\* beside them; when the caller gives draws or nuts_kwargs, the call is
\* refused with a TypeError and the engine is not invoked.
C6_OthersForwarded ==
  SampleReached =>
    IF {"draws", "nuts_kwargs"} \cap DOMAIN sample_kwargs = {}
      THEN /\ engineCalls = 1
           /\ DOMAIN received[1].args
                = DOMAIN sample_kwargs \cup {"draws", "nuts_kwargs"}
           /\ \A k \in DOMAIN sample_kwargs :
                received[1].args[k] = sample_kwargs[k]
           /\ received[1].args["draws"] = 5000
           /\ received[1].args["nuts_kwargs"] = [target_accept |-> <<49, 50>>]
      ELSE /\ engineCalls = 0
           /\ received = <<>>
           /\ pc = "raised"
           /\ err = [type |-> "TypeError", site |-> "sample_call"]

C6_Witness ==
  /\ SampleReached
  /\ pc = "returned"
  /\ DOMAIN sample_kwargs = {"chains", "random_seed"}
  /\ received[1].args["chains"] = 2
  /\ received[1].args["random_seed"] = 42

\* C7: one call makes at most one sampling attempt.  A failure of the builder
\* reaches the caller as raised, with the sampler never invoked; a failure of
\* the sampler reaches the caller as raised after exactly one invocation; in
\* both cases nothing is returned.  On success exactly the sampler's trace is
\* returned, after exactly one invocation.
C7_SingleAttempt ==
  entry = "run" =>
    /\ engineCalls <= 1
    /\ pc = "returned" =>
         /\ engineCalls = 1
         /\ err = NoError
         /\ result = outcome
         /\ Len(result) = 1
         /\ result[1].kind = "trace"
    /\ pc = "raised" =>
         /\ result = <<>>
         /\ err.site \in DeclSites \cup {"validate", "sample_call"} =>
              engineCalls = 0
         /\ err.site \in DeclSites => err.type = "LibraryError"
         /\ err.site = "engine" =>
              /\ engineCalls = 1
              /\ outcome = <<[kind |-> "error", of |-> err.type]>>
         /\ err # NoError
    /\ (outcome # <<>> /\ outcome[1].kind = "error") =>
         pc \in {"r_exit", "raised"} /\ err.type = outcome[1].of

C7_Witness ==
  /\ entry = "run"
  /\ pc = "raised"
  /\ err.site = "engine"
  /\ engineCalls = 1

\* C8: the new model is the active context at every declaration and is
\* released when ecological_inference_model returns or raises; the built model
\* is the active context while the sampler runs; after either function
\* returns or raises the context stack is what it was before the call.
C8_ScopedContext ==
  /\ \A k \in 1..Len(model) : model[k].owner = NewModel
  /\ pc \in DeclSites \cup {"m_exit"} => ctx = Append(ctx0, NewModel)
  /\ pc \in {"r_sample", "r_exit"} => ctx = Append(ctx0, NewModel)
  /\ received # <<>> => received[1].model = NewModel
  /\ pc \in {"idle", "m_validate", "m_enter", "r_enter", "returned",
             "raised"} => ctx = ctx0

C8_Witness ==
  /\ entry = "run"
  /\ pc = "raised"
  /\ err.site = "engine"
  /\ ctx0 = <<"outer">>
  /\ ctx = ctx0
  /\ Len(model) = 6
  /\ model[6].owner = NewModel
  /\ received[1].model = NewModel

Overcount ==
  \E i \in 1..Len(voting_population) :
    num_votes_for_group[i] > voting_population[i]

\* C10: arrays of equal length in which some precinct has more votes than
\* voters raise no validation error; the model is built with the same six
\* declarations, the counts being passed to the likelihood as they are.
C10_NoRangeCheck ==
  (Started /\ ~Mismatch /\ Overcount) =>
    /\ err.site # "validate"
    /\ pc \in {"m_exit", "returned"} =>
         /\ [k \in 1..Len(model) |-> model[k].dist]
              = <<"Exponential", "Exponential", "Beta", "Beta",
                  "Deterministic", "Binomial">>
         /\ model[6].value = num_votes_for_group
         /\ model[6].args.n = voting_population
         /\ model[6].shape = Len(voting_population)

C10_Witness ==
  /\ entry = "model"
  /\ pc = "returned"
  /\ Len(voting_population) = 2
  /\ num_votes_for_group[1] > voting_population[1]
  /\ num_votes_for_group[2] <= voting_population[2]

SameFile(j, k) == log[j].filename = log[k].filename
NextOnFile(j, k) ==
  /\ j < k
  /\ SameFile(j, k)
  /\ \A m \in (j + 1)..(k - 1) : ~SameFile(j, m)

\* C9: a request is issued only while the target file does not exist; once
\* a call on a file has succeeded, every later call on it issues no request
\* and returns the bytes of that call; a call whose answer fails the status
\* check leaves no file, and the next call on that file requests again.
C9_CacheOnFirstRequest ==
  \A k \in 1..Len(log) :
    LET e == log[k] IN
      /\ e.requested => ~e.existed
      /\ \A j \in 1..(k - 1) :
           (SameFile(j, k) /\ log[j].error = "None") =>
             /\ ~e.requested
             /\ e.error = "None"
             /\ e.returned = log[j].returned
      /\ \A j \in 1..(k - 1) :
           (NextOnFile(j, k) /\ log[j].error = "HTTPError") =>
             /\ ~e.existed
             /\ e.requested
      /\ (k = Len(log) /\ e.error = "HTTPError") =>
           e.filename \notin DOMAIN files
      /\ (k = Len(log) /\ e.error = "None") =>
           /\ e.filename \in DOMAIN files
           /\ e.returned = <<files[e.filename]>>

C9_Witness ==
  /\ Len(log) = 3
  /\ log[1].error = "HTTPError"
  /\ log[2].filename = log[1].filename
  /\ log[2].requested
  /\ log[2].error = "None"
  /\ log[3].filename = log[1].filename
  /\ ~log[3].requested
  /\ log[3].returned = log[2].returned

====
